---------------------------- MODULE Spec2Model ----------------------------
(* Flight-data normalisation pipeline of aiagent.py:                      *)
(*   parse_flights           -> list of normalized round-trip itineraries *)
(*   simplify_parsed_flights -> positional prefix in compressed form      *)
(*   get_cheapest_flight     -> first minimum-price entry, or None        *)
(* Python exceptions are modelled as result records: a lookup yields      *)
(* either Ok(value) or Raise(kind, key), and an exception ends the run.   *)
EXTENDS Integers, Sequences, FiniteSets, TLC

VARIABLES data, legs_lookup, places_lookup, carriers_lookup, segments_lookup,
          flights, i, pc, err, max_results, simplified, cheapest

vars == <<data, legs_lookup, places_lookup, carriers_lookup, segments_lookup,
          flights, i, pc, err, max_results, simplified, cheapest>>

\* ---------------------------------------------------------------- bounds
MaxItins == 3
MaxN == 3

\* default of the max_results parameter
DefaultMaxResults == 10

\* ------------------------------------------------------- payload universe
\* ISO-8601 timestamp strings, as <<date, hour, minute, second>>
Iso(d, h, m, s) == <<d, h, m, s>>

PlaceJFK == [id |-> "P1", display_code |-> "JFK"]
PlaceLHR == [id |-> "P2", display_code |-> "LHR"]
PlaceEWR == [id |-> "P1", display_code |-> "EWR"]

CarrierA == [id |-> "C1", name |-> "Alpha Air", display_code |-> "AA"]
CarrierB == [id |-> "C2", name |-> "Beta Jet", display_code |-> "BJ"]

Seg1 == [id |-> "S1", marketing_carrier_id |-> "C1", marketing_flight_number |-> "100",
         origin_place_id |-> "P1", destination_place_id |-> "P2",
         departure |-> Iso("2025-06-01", 8, 30, 15), arrival |-> Iso("2025-06-01", 20, 5, 0),
         duration |-> 425]
Seg2 == [id |-> "S2", marketing_carrier_id |-> "C2", marketing_flight_number |-> "207",
         origin_place_id |-> "P2", destination_place_id |-> "P1",
         departure |-> Iso("2025-06-09", 11, 0, 0), arrival |-> Iso("2025-06-09", 14, 45, 30),
         duration |-> 465]

Leg1 == [id |-> "L1", origin_place_id |-> "P1", destination_place_id |-> "P2",
         departure |-> Iso("2025-06-01", 8, 30, 15), arrival |-> Iso("2025-06-01", 20, 5, 0),
         duration |-> 425, segment_ids |-> <<"S1">>]
Leg2 == [id |-> "L2", origin_place_id |-> "P2", destination_place_id |-> "P1",
         departure |-> Iso("2025-06-09", 11, 0, 0), arrival |-> Iso("2025-06-10", 20, 5, 0),
         duration |-> 1985, segment_ids |-> <<"S2", "S1">>]
Leg3 == [id |-> "L3", origin_place_id |-> "P1", destination_place_id |-> "P1",
         departure |-> Iso("2025-06-02", 0, 0, 0), arrival |-> Iso("2025-06-02", 0, 0, 0),
         duration |-> 0, segment_ids |-> <<>>]
Leg4 == [id |-> "L4", origin_place_id |-> "P2", destination_place_id |-> "P1",
         departure |-> Iso("2025-06-09", 11, 0, 0), arrival |-> Iso("2025-06-09", 14, 45, 30),
         duration |-> 465, segment_ids |-> <<"S2">>]

PlacesChoices == {<<PlaceJFK, PlaceLHR>>, <<PlaceJFK>>, <<PlaceJFK, PlaceLHR, PlaceEWR>>}
CarriersChoices == {<<CarrierA, CarrierB>>, <<CarrierA>>}
SegmentsChoices == {<<Seg1, Seg2>>, <<Seg1>>}
LegsChoices == {<<Leg1, Leg2, Leg3, Leg4>>, <<Leg1, Leg2, Leg3>>}

Option(a) == [price |-> [amount |-> a]]
Itin(po, lids) == [pricing_options |-> po, leg_ids |-> lids]

ItinChoices ==
  { Itin(<<Option(200)>>, <<"L1", "L2">>),
    Itin(<<Option(300), Option(100)>>, <<"L1", "L4">>),
    Itin(<<Option(200)>>, <<"L3", "L1">>),
    Itin(<<Option(100)>>, <<"L4", "L1">>),
    Itin(<<Option(100)>>, <<"L9">>),
    Itin(<<>>, <<"L1">>),
    Itin(<<Option(100)>>, <<"L1", "L2", "L4">>),
    Itin(<<>>, <<"L1", "L2">>),
    Itin(<<Option(100)>>, <<>>) }

RECURSIVE SeqsUpTo(_, _)
SeqsUpTo(S, n) ==
  IF n = 0 THEN {<<>>}
  ELSE LET shorter == SeqsUpTo(S, n - 1)
       IN shorter \cup {Append(s, x) : s \in {t \in shorter : Len(t) = n - 1}, x \in S}

\* --------------------------------------------------------- Python helpers
Ok(v) == [exc |-> "none", value |-> v]
Raise(kind, key) == [exc |-> kind, key |-> key]
NoError == [exc |-> "none", key |-> ""]
None == [is_none |-> TRUE]

\* {x["id"]: x for x in seq}: a later entry with the same id wins
dict_by_id(seq) ==
  [k \in {seq[j].id : j \in DOMAIN seq} |->
     seq[CHOOSE j \in DOMAIN seq :
           seq[j].id = k /\ \A j2 \in DOMAIN seq : j2 > j => seq[j2].id # k]]

\* variant: d.get(k, placeholder), a miss yields a record of null fields
NullIso == <<"null", 0, 0, 0>>
NullRecord ==
  [id |-> "null", display_code |-> "null", name |-> "null",
   marketing_carrier_id |-> "null", marketing_flight_number |-> "null",
   origin_place_id |-> "null", destination_place_id |-> "null",
   departure |-> NullIso, arrival |-> NullIso, duration |-> 0, segment_ids |-> <<>>]
getitem_placeholder(d, k) == IF k \in DOMAIN d THEN Ok(d[k]) ELSE Ok(NullRecord)

\* d[k]: KeyError when k is not a key
getitem(d, k) == IF k \in DOMAIN d THEN Ok(d[k]) ELSE Raise("KeyError", k)

\* datetime.fromisoformat
fromisoformat(s) == [date |-> s[1], hour |-> s[2], minute |-> s[3], second |-> s[4]]
\* strftime("%Y-%m-%d %H:%M") and strftime("%H:%M")
strftime_ymd_hm(dt) == <<dt.date, dt.hour, dt.minute>>
strftime_hm(dt) == <<dt.hour, dt.minute>>


\* ------------------------------------------------------------ parse_flights
\* variant: the smallest amount over all pricing options
price_of_min(itin) ==
  IF Len(itin.pricing_options) = 0 THEN Raise("IndexError", "")
  ELSE Ok(CHOOSE a \in {itin.pricing_options[j].price.amount : j \in DOMAIN itin.pricing_options} :
            \A j \in DOMAIN itin.pricing_options : a <= itin.pricing_options[j].price.amount)

\* itin["pricing_options"][0]["price"]["amount"]
price_of(itin) ==
  IF Len(itin.pricing_options) = 0 THEN Raise("IndexError", "")
  ELSE Ok(itin.pricing_options[1].price.amount)

\* variant: anything with at least two legs is kept
not_round_trip_under2(itin) == Len(itin.leg_ids) < 2

\* len(itin["leg_ids"]) != 2
not_round_trip(itin) == Len(itin.leg_ids) # 2

\* one element of the segments list built by format_leg
format_segment(sid) ==
  LET seg == getitem(segments_lookup, sid) IN
  IF seg.exc # "none" THEN seg ELSE
  LET carrier == getitem(carriers_lookup, seg.value.marketing_carrier_id) IN
  IF carrier.exc # "none" THEN carrier ELSE
  LET o == getitem(places_lookup, seg.value.origin_place_id) IN
  IF o.exc # "none" THEN o ELSE
  LET d == getitem(places_lookup, seg.value.destination_place_id) IN
  IF d.exc # "none" THEN d ELSE
  Ok([segment_id |-> sid,
      airline |-> carrier.value.name,
      airline_code |-> carrier.value.display_code,
      flight_number |-> seg.value.marketing_flight_number,
      origin |-> o.value.display_code,
      destination |-> d.value.display_code,
      departure_time |-> fromisoformat(seg.value.departure),
      arrival_time |-> fromisoformat(seg.value.arrival),
      duration |-> seg.value.duration])

\* the loop over leg["segment_ids"]: stops at the first exception
RECURSIVE expand_segments(_, _, _)
expand_segments(sids, k, segments) ==
  IF k > Len(sids) THEN Ok(segments)
  ELSE LET s == format_segment(sids[k]) IN
       IF s.exc # "none" THEN s
       ELSE expand_segments(sids, k + 1, Append(segments, s.value))

\* variant: a leg without segments counts as direct
is_direct_of_atmost1(segments) == Len(segments) <= 1

\* len(segments) == 1
is_direct_of(segments) == Len(segments) = 1

format_leg(leg) ==
  LET origin == getitem(places_lookup, leg.origin_place_id) IN
  IF origin.exc # "none" THEN origin ELSE
  LET dest == getitem(places_lookup, leg.destination_place_id) IN
  IF dest.exc # "none" THEN dest ELSE
  LET segments == expand_segments(leg.segment_ids, 1, <<>>) IN
  IF segments.exc # "none" THEN segments ELSE
  Ok([origin |-> origin.value.display_code,
      destination |-> dest.value.display_code,
      departure_time |-> fromisoformat(leg.departure),
      arrival_time |-> fromisoformat(leg.arrival),
      duration |-> leg.duration,
      segments |-> segments.value,
      is_direct |-> is_direct_of(segments.value)])

\* body of the loop for an itinerary that passed the round-trip test
normalize_itin(itin, price) ==
  LET outbound_leg == getitem(legs_lookup, itin.leg_ids[1]) IN
  IF outbound_leg.exc # "none" THEN outbound_leg ELSE
  LET return_leg == getitem(legs_lookup, itin.leg_ids[2]) IN
  IF return_leg.exc # "none" THEN return_leg ELSE
  LET ob == format_leg(outbound_leg.value) IN
  IF ob.exc # "none" THEN ob ELSE
  LET rt == format_leg(return_leg.value) IN
  IF rt.exc # "none" THEN rt ELSE
  Ok([price_usd |-> price, outbound |-> ob.value, return |-> rt.value])

\* variant: flights.insert(0, record)
append_flight_front(fl, rec) == <<rec>> \o fl

\* flights.append(record)
append_flight(fl, rec) == Append(fl, rec)

\* ------------------------------------------------- simplify_parsed_flights
\* variant: seq[:n + 1]
slice_to_inclusive(seq, n) ==
  LET len == Len(seq)
      m == n + 1
      stop == IF m < 0 THEN (IF len + m < 0 THEN 0 ELSE len + m)
              ELSE (IF m < len THEN m ELSE len)
  IN SubSeq(seq, 1, stop)

\* seq[:n] of Python: a negative stop counts from the end
slice_to(seq, n) ==
  LET len == Len(seq)
      stop == IF n < 0 THEN (IF len + n < 0 THEN 0 ELSE len + n)
              ELSE (IF n < len THEN n ELSE len)
  IN SubSeq(seq, 1, stop)

\* an f-string is modelled as the tuple of its interpolated fields and
\* separators ("->" stands for the arrow character)
simplify_segment(seg) ==
  <<seg.airline_code, seg.flight_number, seg.origin, "->", seg.destination,
    strftime_hm(seg.departure_time), "->", strftime_hm(seg.arrival_time)>>

simplify_format_leg(leg) ==
  [route |-> <<leg.origin, "->", leg.destination>>,
   departure |-> strftime_ymd_hm(leg.departure_time),
   arrival |-> strftime_ymd_hm(leg.arrival_time),
   segments |-> [k \in DOMAIN leg.segments |-> simplify_segment(leg.segments[k])]]

simplify_one(f) ==
  [price_usd |-> f.price_usd,
   outbound |-> simplify_format_leg(f.outbound),
   return |-> simplify_format_leg(f.return)]

\* variant: the loop runs over all of flights, max_results unused
simplify_parsed_flights_all(fl, n) == [k \in DOMAIN fl |-> simplify_one(fl[k])]

simplify_parsed_flights(fl, n) ==
  LET cut == slice_to(fl, n) IN [k \in DOMAIN cut |-> simplify_one(cut[k])]

\* ----------------------------------------------------- get_cheapest_flight
\* variant: a later element of equal key replaces the kept one
RECURSIVE min_by_price_last(_, _, _)
min_by_price_last(seq, k, best) ==
  IF k > Len(seq) THEN best
  ELSE min_by_price_last(seq, k + 1,
                         IF seq[k].price_usd <= best.price_usd THEN seq[k] ELSE best)

\* min(flights, key=...): the first element with the smallest key is kept
RECURSIVE min_by_price(_, _, _)
min_by_price(seq, k, best) ==
  IF k > Len(seq) THEN best
  ELSE min_by_price(seq, k + 1,
                    IF seq[k].price_usd < best.price_usd THEN seq[k] ELSE best)

get_cheapest_flight(fl) ==
  IF Len(fl) = 0 THEN None ELSE min_by_price(fl, 2, fl[1])

\* ------------------------------------------------------------------ state
Init ==
  /\ data \in {[legs |-> l, places |-> p, carriers |-> c, segments |-> s,
                itineraries |-> it] :
                l \in LegsChoices, p \in PlacesChoices, c \in CarriersChoices,
                s \in SegmentsChoices, it \in SeqsUpTo(ItinChoices, MaxItins)}
  /\ legs_lookup = <<>>
  /\ places_lookup = <<>>
  /\ carriers_lookup = <<>>
  /\ segments_lookup = <<>>
  /\ flights = <<>>
  /\ i = 0
  /\ pc = "start"
  /\ err = NoError
  /\ max_results = DefaultMaxResults
  /\ simplified = <<>>
  /\ cheapest = None

CurItin == data.itineraries[i]
InLoop == pc = "loop" /\ i <= Len(data.itineraries)

\* lines 44-49: the four lookup tables and the empty result list
BuildLookups ==
  /\ pc = "start"
  /\ legs_lookup' = dict_by_id(data.legs)
  /\ places_lookup' = dict_by_id(data.places)
  /\ carriers_lookup' = dict_by_id(data.carriers)
  /\ segments_lookup' = dict_by_id(data.segments)
  /\ flights' = <<>>
  /\ i' = 1
  /\ pc' = "loop"
  /\ UNCHANGED <<data, err, max_results, simplified, cheapest>>

\* line 52 raises: the itinerary has no pricing option
RaisePrice ==
  /\ InLoop
  /\ price_of(CurItin).exc # "none"
  /\ err' = [exc |-> price_of(CurItin).exc, key |-> price_of(CurItin).key]
  /\ pc' = "raised"
  /\ UNCHANGED <<data, legs_lookup, places_lookup, carriers_lookup, segments_lookup,
                 flights, i, max_results, simplified, cheapest>>

\* lines 54-55: continue
SkipItin ==
  /\ InLoop
  /\ price_of(CurItin).exc = "none"
  /\ not_round_trip(CurItin)
  /\ i' = i + 1
  /\ UNCHANGED <<data, legs_lookup, places_lookup, carriers_lookup, segments_lookup,
                 flights, pc, err, max_results, simplified, cheapest>>

\* lines 57-95 raise: a lookup of the itinerary misses
RaiseLookup ==
  /\ InLoop
  /\ price_of(CurItin).exc = "none"
  /\ ~not_round_trip(CurItin)
  /\ LET r == normalize_itin(CurItin, price_of(CurItin).value) IN
       /\ r.exc # "none"
       /\ err' = [exc |-> r.exc, key |-> r.key]
  /\ pc' = "raised"
  /\ UNCHANGED <<data, legs_lookup, places_lookup, carriers_lookup, segments_lookup,
                 flights, i, max_results, simplified, cheapest>>

\* lines 57-95: the record is appended
AppendItin ==
  /\ InLoop
  /\ price_of(CurItin).exc = "none"
  /\ ~not_round_trip(CurItin)
  /\ LET r == normalize_itin(CurItin, price_of(CurItin).value) IN
       /\ r.exc = "none"
       /\ flights' = append_flight(flights, r.value)
  /\ i' = i + 1
  /\ UNCHANGED <<data, legs_lookup, places_lookup, carriers_lookup, segments_lookup,
                 pc, err, max_results, simplified, cheapest>>

\* line 97: return flights
ReturnFlights ==
  /\ pc = "loop"
  /\ i > Len(data.itineraries)
  /\ pc' = "returned"
  /\ UNCHANGED <<data, legs_lookup, places_lookup, carriers_lookup, segments_lookup,
                 flights, i, err, max_results, simplified, cheapest>>

\* line 199: main calls simplify_parsed_flights with the default max_results
SimplifyDefault ==
  /\ pc = "returned"
  /\ max_results' = DefaultMaxResults
  /\ simplified' = simplify_parsed_flights(flights, DefaultMaxResults)
  /\ pc' = "simplified"
  /\ UNCHANGED <<data, legs_lookup, places_lookup, carriers_lookup, segments_lookup,
                 flights, i, err, cheapest>>

\* simplify_parsed_flights called with an explicit max_results
SimplifyWith ==
  /\ pc = "returned"
  /\ \E n \in (0 - MaxN)..MaxN :
       /\ max_results' = n
       /\ simplified' = simplify_parsed_flights(flights, n)
  /\ pc' = "simplified"
  /\ UNCHANGED <<data, legs_lookup, places_lookup, carriers_lookup, segments_lookup,
                 flights, i, err, cheapest>>

\* line 239: get_cheapest_flight(simplified_flight_data)
SelectCheapest ==
  /\ pc = "simplified"
  /\ cheapest' = get_cheapest_flight(simplified)
  /\ pc' = "done"
  /\ UNCHANGED <<data, legs_lookup, places_lookup, carriers_lookup, segments_lookup,
                 flights, i, err, max_results, simplified>>

Next ==
  \/ BuildLookups
  \/ RaisePrice
  \/ SkipItin
  \/ RaiseLookup
  \/ AppendItin
  \/ ReturnFlights
  \/ SimplifyDefault
  \/ SimplifyWith
  \/ SelectCheapest

Spec == Init /\ [][Next]_vars


\* ------------------------------------------------- vocabulary of the claims
\* (written over the raw payload, independently of the operators above)
Itins == data.itineraries
Finished == pc \in {"returned", "raised", "simplified", "done"}
Returned == pc \in {"returned", "simplified", "done"}
Simplified == pc \in {"simplified", "done"}

IsRT(k) == Len(Itins[k].leg_ids) = 2
Priced(k) == Len(Itins[k].pricing_options) > 0
RTIndices == {k \in DOMAIN Itins : IsRT(k)}
\* round-trip itineraries the loop has already passed
RTDone == {k \in RTIndices : k < i}
Rank(k) == Cardinality({j \in RTIndices : j <= k})

HasLeg(id) == \E j \in DOMAIN data.legs : data.legs[j].id = id
HasPlace(id) == \E j \in DOMAIN data.places : data.places[j].id = id
HasCarrier(id) == \E j \in DOMAIN data.carriers : data.carriers[j].id = id
HasSegment(id) == \E j \in DOMAIN data.segments : data.segments[j].id = id
LegOf(id) == data.legs[CHOOSE j \in DOMAIN data.legs : data.legs[j].id = id]
SegmentOf(id) == data.segments[CHOOSE j \in DOMAIN data.segments : data.segments[j].id = id]

SegmentResolves(sid) ==
  /\ HasSegment(sid)
  /\ HasCarrier(SegmentOf(sid).marketing_carrier_id)
  /\ HasPlace(SegmentOf(sid).origin_place_id)
  /\ HasPlace(SegmentOf(sid).destination_place_id)
LegResolves(lid) ==
  /\ HasLeg(lid)
  /\ HasPlace(LegOf(lid).origin_place_id)
  /\ HasPlace(LegOf(lid).destination_place_id)
  /\ \A j \in DOMAIN LegOf(lid).segment_ids : SegmentResolves(LegOf(lid).segment_ids[j])
ItinResolves(k) == \A j \in DOMAIN Itins[k].leg_ids : LegResolves(Itins[k].leg_ids[j])

WellFormed == \A k \in DOMAIN Itins : Priced(k) /\ (IsRT(k) => ItinResolves(k))
PlaceCodes == {data.places[j].display_code : j \in DOMAIN data.places}
MinOf(S) == CHOOSE x \in S : \A y \in S : x <= y
Smaller(a, b) == IF a < b THEN a ELSE b

\* C1: round-trip filter. When parse_flights returns, the result has one
\* record per itinerary with exactly two leg ids and none for any other
\* itinerary; and it does return whenever every itinerary has a pricing
\* option and the references of the round-trip itineraries all resolve.
Thm_C1_RoundTripFilter ==
  /\ Returned => Len(flights) = Cardinality(RTIndices)
  /\ Len(flights) = Cardinality(RTDone)
  /\ (Finished /\ WellFormed) => Returned
Wit_C1_RoundTripFilter ==
  /\ Returned
  /\ \E k \in DOMAIN Itins : Len(Itins[k].leg_ids) = 3
  /\ \E k \in DOMAIN Itins : Len(Itins[k].leg_ids) = 1
  /\ \E k \in DOMAIN Itins : Len(Itins[k].leg_ids) = 2
  /\ Len(flights) = 1

\* C7: order preservation. The k-th round-trip itinerary of the input (in
\* input order) is the source of the k-th record: its legs are the ones
\* the itinerary names, outbound first.
SameLeg(nleg, lid) ==
  /\ HasLeg(lid)
  /\ nleg.duration = LegOf(lid).duration
  /\ Len(nleg.segments) = Len(LegOf(lid).segment_ids)
  /\ nleg.departure_time.date = LegOf(lid).departure[1]
Thm_C7_OrderPreserved ==
  /\ Len(flights) = Cardinality(RTDone)
  /\ \A k \in RTDone :
       Rank(k) \in DOMAIN flights =>
         /\ SameLeg(flights[Rank(k)].outbound, Itins[k].leg_ids[1])
         /\ SameLeg(flights[Rank(k)].return, Itins[k].leg_ids[2])
Wit_C7_OrderPreserved ==
  /\ Returned
  /\ Len(flights) = 2
  /\ flights[1].outbound.duration # flights[2].outbound.duration
  /\ Len(Itins) = 3 /\ ~IsRT(2)

\* C8: price source. price_usd of a record is the amount of the first
\* pricing option of its itinerary, also when a later option is cheaper.
Thm_C8_FirstOptionPrice ==
  \A k \in RTDone :
    Rank(k) \in DOMAIN flights =>
      flights[Rank(k)].price_usd = Itins[k].pricing_options[1].price.amount
Wit_C8_FirstOptionPrice ==
  /\ Returned
  /\ \E k \in RTDone :
       /\ Len(Itins[k].pricing_options) = 2
       /\ Itins[k].pricing_options[2].price.amount < Itins[k].pricing_options[1].price.amount
       /\ Rank(k) \in DOMAIN flights
       /\ flights[Rank(k)].price_usd = Itins[k].pricing_options[1].price.amount

\* C9: directness. For both legs of every record, is_direct holds exactly
\* when the leg has one segment, and the segments are those of the source
\* leg's segment_ids, one each, in the same order.
LegDirectness(nleg, lid) ==
  /\ nleg.is_direct <=> (Len(nleg.segments) = 1)
  /\ HasLeg(lid)
  /\ Len(nleg.segments) = Len(LegOf(lid).segment_ids)
  /\ \A j \in DOMAIN nleg.segments :
       nleg.segments[j].segment_id = LegOf(lid).segment_ids[j]
Thm_C9_Directness ==
  \A k \in RTDone :
    Rank(k) \in DOMAIN flights =>
      /\ LegDirectness(flights[Rank(k)].outbound, Itins[k].leg_ids[1])
      /\ LegDirectness(flights[Rank(k)].return, Itins[k].leg_ids[2])
Wit_C9_Directness ==
  /\ Returned
  /\ \E m \in DOMAIN flights : Len(flights[m].outbound.segments) = 0
                               /\ ~flights[m].outbound.is_direct
  /\ \E m \in DOMAIN flights : Len(flights[m].return.segments) = 2
                               /\ ~flights[m].return.is_direct
  /\ \E m \in DOMAIN flights : Len(flights[m].outbound.segments) = 1
                               /\ flights[m].outbound.is_direct


\* C5: reference integrity. A round-trip itinerary with an id that is
\* absent from its lookup table (leg, place, segment or carrier) never has
\* a record in the result: its normalization ends in a KeyError naming an
\* absent id, and every record present carries resolved, non-null fields.
IsAbsentId(key) == ~HasLeg(key) /\ ~HasPlace(key) /\ ~HasCarrier(key) /\ ~HasSegment(key)
LegComplete(nleg) ==
  /\ nleg.origin \in PlaceCodes
  /\ nleg.destination \in PlaceCodes
  /\ \A j \in DOMAIN nleg.segments :
       /\ HasSegment(nleg.segments[j].segment_id)
       /\ nleg.segments[j].origin \in PlaceCodes
       /\ nleg.segments[j].destination \in PlaceCodes
       /\ \E c \in DOMAIN data.carriers :
            /\ data.carriers[c].name = nleg.segments[j].airline
            /\ data.carriers[c].display_code = nleg.segments[j].airline_code
Thm_C5_ReferenceIntegrity ==
  /\ \A k \in RTDone : ItinResolves(k)
  /\ \A m \in DOMAIN flights : LegComplete(flights[m].outbound) /\ LegComplete(flights[m].return)
  /\ (pc = "raised" /\ Priced(i) /\ IsRT(i)) =>
        /\ ~ItinResolves(i)
        /\ err.exc = "KeyError"
        /\ IsAbsentId(err.key)
  /\ (pc = "raised" /\ err.exc = "KeyError") => (IsRT(i) /\ ~ItinResolves(i))
Wit_C5_ReferenceIntegrity ==
  /\ pc = "raised"
  /\ err.exc = "KeyError"
  /\ IsRT(i) /\ HasLeg(Itins[i].leg_ids[1]) /\ HasLeg(Itins[i].leg_ids[2])
  /\ err.key = "C2"
  /\ Len(flights) = 1

\* C2: selection correctness. For a non-empty sequence the result is the
\* element at the smallest index among those of minimum price_usd; for an
\* empty sequence it is None.
Thm_C2_Selection ==
  pc = "done" =>
    /\ Len(simplified) = 0 => cheapest = None
    /\ Len(simplified) > 0 =>
         \E m \in DOMAIN simplified :
           /\ cheapest = simplified[m]
           /\ \A j \in DOMAIN simplified : simplified[j].price_usd >= simplified[m].price_usd
           /\ \A j \in 1..(m - 1) : simplified[j].price_usd > simplified[m].price_usd
Wit_C2_Selection ==
  /\ pc = "done"
  /\ Len(simplified) = 3
  /\ simplified[2].price_usd = simplified[3].price_usd
  /\ simplified[2] # simplified[3]
  /\ simplified[1].price_usd > simplified[2].price_usd
  /\ cheapest = simplified[2]

\* entry m of the compressed list is the compressed form of record f
CompressedLegOf(cleg, nleg) ==
  /\ cleg.route = <<nleg.origin, "->", nleg.destination>>
  /\ cleg.departure = <<nleg.departure_time.date, nleg.departure_time.hour,
                        nleg.departure_time.minute>>
  /\ cleg.arrival = <<nleg.arrival_time.date, nleg.arrival_time.hour,
                      nleg.arrival_time.minute>>
  /\ Len(cleg.segments) = Len(nleg.segments)
  /\ \A j \in DOMAIN cleg.segments :
       /\ cleg.segments[j][1] = nleg.segments[j].airline_code
       /\ cleg.segments[j][2] = nleg.segments[j].flight_number
       /\ cleg.segments[j][3] = nleg.segments[j].origin
       /\ cleg.segments[j][5] = nleg.segments[j].destination
       /\ cleg.segments[j][6] = <<nleg.segments[j].departure_time.hour,
                                  nleg.segments[j].departure_time.minute>>
       /\ cleg.segments[j][8] = <<nleg.segments[j].arrival_time.hour,
                                  nleg.segments[j].arrival_time.minute>>
CompressedOf(c, f) ==
  /\ c.price_usd = f.price_usd
  /\ CompressedLegOf(c.outbound, f.outbound)
  /\ CompressedLegOf(c.return, f.return)
IsPrefixImage ==
  \A m \in DOMAIN simplified :
    m \in DOMAIN flights /\ CompressedOf(simplified[m], flights[m])

\* C3 as stated: for any integer max_results N, negative values included,
\* the result has exactly min(N, len(input)) entries and is the compressed
\* prefix of the input.
Claim_C3_CompressionBound ==
  Simplified =>
    /\ Len(simplified) = Smaller(max_results, Len(flights))
    /\ IsPrefixImage

\* C3 amended: for N >= 0 the result has exactly min(N, len(input)) entries,
\* for N < 0 it has max(len(input) + N, 0) entries; in both cases entry i of
\* the result is the compressed form of entry i of the input.
Thm_C3_CompressionBound ==
  Simplified =>
    /\ max_results >= 0 => Len(simplified) = Smaller(max_results, Len(flights))
    /\ max_results < 0 =>
         Len(simplified) = (IF Len(flights) + max_results < 0 THEN 0
                            ELSE Len(flights) + max_results)
    /\ IsPrefixImage
Wit_C3_CompressionBound ==
  /\ Simplified
  /\ Len(flights) = 3
  /\ max_results = 2
  /\ Len(simplified) = 2
  /\ flights[3].price_usd < flights[1].price_usd

\* C10: composition used by main. For N >= 0 the cheapest of the compressed
\* list is None exactly when the first min(N, len(F)) entries are none, and
\* otherwise is the compressed form of the earliest minimum-price record
\* among those entries only; it has the minimum price of all of F whenever
\* len(F) <= N.
Thm_C10_CheapestOfPrefix ==
  (pc = "done" /\ max_results >= 0) =>
    LET n == Smaller(max_results, Len(flights)) IN
    /\ (cheapest = None) <=> (n = 0)
    /\ n > 0 =>
         /\ \E m \in 1..n :
              /\ \A j \in 1..n : flights[j].price_usd >= flights[m].price_usd
              /\ \A j \in 1..(m - 1) : flights[j].price_usd > flights[m].price_usd
              /\ CompressedOf(cheapest, flights[m])
         /\ Len(flights) <= max_results =>
              cheapest.price_usd = MinOf({flights[j].price_usd : j \in DOMAIN flights})
\* ... and it exceeds the cheapest price of F when that sits at index N or later
Wit_C10_CheapestOfPrefix ==
  /\ pc = "done"
  /\ max_results = 2
  /\ Len(flights) = 3
  /\ cheapest # None
  /\ cheapest.price_usd > flights[3].price_usd
  /\ cheapest.price_usd = flights[1].price_usd
  /\ flights[2].price_usd = flights[1].price_usd

\* C4 as stated: an unresolved reference in one round-trip itinerary aborts
\* only that itinerary, so every other round-trip itinerary with resolvable
\* references still has its record in a returned result.
Claim_C4_FailureIsolation ==
  (Finished /\ \A k \in DOMAIN Itins : Priced(k)) =>
    \A k \in RTIndices :
      (ItinResolves(k) /\ \E b \in RTIndices : ~ItinResolves(b)) =>
        /\ Returned
        /\ \E m \in DOMAIN flights :
             /\ SameLeg(flights[m].outbound, Itins[k].leg_ids[1])
             /\ SameLeg(flights[m].return, Itins[k].leg_ids[2])

\* C6 as stated: an itinerary whose leg_ids count is not 2 is skipped
\* without raising, whatever its pricing options and leg ids are; so the
\* run never ends in an exception at such an itinerary.
Claim_C6_SkipRaisesNothing ==
  pc = "raised" => Len(Itins[i].leg_ids) = 2

=============================================================================
